---- MODULE Spec2Model ----
(***************************************************************************)
(* The Section 1.1 notebook (jupyter/1.1-section): load a CSV of per-gene  *)
(* boolean observations, count the 2x2 contingency table {a,b,c,d}, and    *)
(* hand it to scipy.stats.fisher_exact(..., alternative = "two-sided").    *)
(*                                                                         *)
(* The kernel's namespace is the variable ns, a function from the names    *)
(* the cells have bound so far to their values; a name no cell has bound   *)
(* is absent from DOMAIN ns.  Python floats are modelled as exact          *)
(* rationals in lowest terms plus the two non-finite values inf and nan.   *)
(***************************************************************************)
EXTENDS Integers, Sequences, FiniteSets, TLC

\* Longest table of arbitrary rows (missing values included) read from disk.
MaxRecords == 3
\* Largest count per cell among the complete, ordered tables read from disk.
MaxCell == 5
\* How often the notebook is run again on the same kernel.
MaxReruns == 1
\* Largest table total whose hypergeometric weights fit TLC's integers.
MaxTotal == 28

VARIABLES csv, pc, ns, error, runs, previous

vars == <<csv, pc, ns, error, runs, previous>>

-----------------------------------------------------------------------------
(* Values of a boolean CSV column as pandas reads it: True, False, or NaN  *)
(* for an empty field.                                                     *)
Values == {"True", "False", "NaN"}

Row == [NativeEnt : Values, NonRefoldable : Values]

MkRow(e, m) == [NativeEnt |-> e, NonRefoldable |-> m]

\* A table without missing values holding a, b, c and d rows of each kind.
FrameOf(a, b, c, d) ==
    [i \in 1..(a + b + c + d) |->
        IF i <= a THEN MkRow("True", "True")
        ELSE IF i <= a + b THEN MkRow("True", "False")
        ELSE IF i <= a + b + c THEN MkRow("False", "True")
        ELSE MkRow("False", "False")]

\* The two tables the specification names.
ScenarioFrames == {FrameOf(30, 18, 16, 65), FrameOf(10, 0, 5, 10)}

\* The files the notebook may find on disk.
CsvFiles ==
    UNION {[1..n -> Row] : n \in 0..MaxRecords}
    \cup {FrameOf(a, b, c, d) : a, b, c, d \in 0..MaxCell}
    \cup ScenarioFrames

-----------------------------------------------------------------------------
(* Python floats.                                                          *)
RECURSIVE GCD(_, _)
GCD(x, y) == IF y = 0 THEN x ELSE GCD(y, x % y)

Finite(n, d) ==
    LET g == GCD(n, d) IN [kind |-> "finite", num |-> n \div g, den |-> d \div g]

Inf == [kind |-> "inf", num |-> 1, den |-> 0]
NaN == [kind |-> "nan", num |-> 0, den |-> 0]
One == Finite(1, 1)
\* A p-value TLC's integers cannot hold (table total above MaxTotal).
Unevaluated == [kind |-> "unevaluated", num |-> 0, den |-> 0]

-----------------------------------------------------------------------------
(* The namespace.                                                          *)
Bind(f, name, val) ==
    [n \in DOMAIN f \cup {name} |-> IF n = name THEN val ELSE f[n]]

\* Mutant: the missing values are filled with False before the comparison.
CountWhere_FillNaFalse(data1, e, m) ==
    LET Filled(v) == IF v = "NaN" THEN "False" ELSE v
    IN Cardinality({i \in 1..Len(data1) :
                       Filled(data1[i].NativeEnt) = e
                       /\ Filled(data1[i].NonRefoldable) = m})

\* Mutant: the two masks are joined with | instead of &.
CountWhere_Or(data1, e, m) ==
    Cardinality({i \in 1..Len(data1) :
                    data1[i].NativeEnt = e \/ data1[i].NonRefoldable = m})

\* pandas: len(data1[(data1["NativeEnt"] == e) & (data1["NonRefoldable"] == m)]).
\* A NaN field compares unequal to True and to False.
CountWhere(data1, e, m) ==
    Cardinality({i \in 1..Len(data1) :
                    data1[i].NativeEnt = e /\ data1[i].NonRefoldable = m})

-----------------------------------------------------------------------------
(* scipy.stats.fisher_exact(table, alternative = "two-sided").             *)
(* hypergeom.pmf(x, M, n1, n) is Weight(x, M, n1, n) / Choose(M, n): every *)
(* probability of one call has the same denominator, so the model keeps    *)
(* the integer numerators.                                                 *)

RECURSIVE Choose(_, _)
Choose(n, k) ==
    IF k < 0 \/ k > n THEN 0
    ELSE IF k = 0 THEN 1
    ELSE (Choose(n - 1, k - 1) * n) \div k

Weight(x, M, n1, n) == Choose(n1, x) * Choose(M - n1, n - x)

RECURSIVE SumWeights(_, _, _, _, _)
SumWeights(lo, hi, M, n1, n) ==
    IF lo > hi THEN 0
    ELSE Weight(lo, M, n1, n) + SumWeights(lo + 1, hi, M, n1, n)

\* hypergeom.cdf(x, M, n1, n) and hypergeom.sf(x, M, n1, n), as numerators.
Cdf(x, M, n1, n) == SumWeights(0, x, M, n1, n)
Sf(x, M, n1, n) == SumWeights(x + 1, n, M, n1, n)

(* pexact * gamma, gamma = 1 + 1e-14: a threshold strictly between the     *)
(* weight w and the next integer weight.  Weights are compared doubled, so *)
(* the threshold is 2w + 1.                                                *)
Scaled(w) == 2 * w
Gamma(w) == 2 * w + 1

(* _binary_search(a, d, lo, hi): the index i in lo..hi with                *)
(* a(i) <= d < a(i+1), for a ascending.  a is sign * pmf.                  *)
RECURSIVE BinarySearch(_, _, _, _, _, _, _)
BinarySearch(sign, d, lo, hi, M, n1, n) ==
    IF lo < hi
    THEN LET mid == lo + (hi - lo) \div 2
             midval == sign * Scaled(Weight(mid, M, n1, n))
         IN IF midval < d THEN BinarySearch(sign, d, mid + 1, hi, M, n1, n)
            ELSE IF midval > d THEN BinarySearch(sign, d, lo, mid - 1, M, n1, n)
            ELSE mid
    ELSE IF sign * Scaled(Weight(lo, M, n1, n)) <= d THEN lo ELSE lo - 1

Min(x, y) == IF x <= y THEN x ELSE y

RowSums(t) == {t[1][1] + t[1][2], t[2][1] + t[2][2]}
ColSums(t) == {t[1][1] + t[2][1], t[1][2] + t[2][2]}

\* Mutant: the products are taken along the columns instead of the diagonals.
OddsRatio_ColumnProducts(t) ==
    IF t[1][2] > 0 /\ t[2][2] > 0
    THEN Finite(t[1][1] * t[2][1], t[1][2] * t[2][2])
    ELSE Inf

\* Mutant: a zero denominator gives nan instead of inf.
OddsRatio_ZeroDenominatorNaN(t) ==
    IF t[2][1] > 0 /\ t[1][2] > 0
    THEN Finite(t[1][1] * t[2][2], t[2][1] * t[1][2])
    ELSE NaN

\* The odds ratio of a table whose margins are all positive.
OddsRatio(t) ==
    IF t[2][1] > 0 /\ t[1][2] > 0
    THEN Finite(t[1][1] * t[2][2], t[2][1] * t[1][2])
    ELSE Inf

\* Mutant: twice the smaller tail (the symmetric-doubling approximation).
TwoSidedWeight_Doubling(t) ==
    LET n1 == t[1][1] + t[1][2]
        n  == t[1][1] + t[2][1]
        M  == n1 + t[2][1] + t[2][2]
    IN 2 * Min(Cdf(t[1][1], M, n1, n), Sf(t[1][1] - 1, M, n1, n))

\* Mutant: the mode is computed from the second row's total instead of the
\* first row's.
TwoSidedWeight_ModeOfOtherRow(t) ==
    LET n1 == t[1][1] + t[1][2]
        n2 == t[2][1] + t[2][2]
        n  == t[1][1] + t[2][1]
        M  == n1 + n2
        mode == ((n + 1) * (n2 + 1)) \div (n1 + n2 + 2)
        wexact == Weight(t[1][1], M, n1, n)
        wmode == Weight(mode, M, n1, n)
    IN IF wexact = wmode THEN Choose(M, n)
       ELSE IF t[1][1] < mode
       THEN LET plower == Cdf(t[1][1], M, n1, n)
            IN IF Scaled(Weight(n, M, n1, n)) > Gamma(wexact) THEN plower
               ELSE LET guess == BinarySearch(-1, -Gamma(wexact), mode, n, M, n1, n)
                    IN plower + Sf(guess, M, n1, n)
       ELSE LET pupper == Sf(t[1][1] - 1, M, n1, n)
            IN IF Scaled(Weight(0, M, n1, n)) > Gamma(wexact) THEN pupper
               ELSE LET guess == BinarySearch(1, Gamma(wexact), 0, mode, M, n1, n)
                    IN pupper + Cdf(guess, M, n1, n)

\* The numerator of the two-sided p-value over Choose(n1 + n2, n).
TwoSidedWeight(t) ==
    LET n1 == t[1][1] + t[1][2]
        n2 == t[2][1] + t[2][2]
        n  == t[1][1] + t[2][1]
        M  == n1 + n2
        mode == ((n + 1) * (n1 + 1)) \div (n1 + n2 + 2)
        wexact == Weight(t[1][1], M, n1, n)
        wmode == Weight(mode, M, n1, n)
    IN IF wexact = wmode THEN Choose(M, n)
       ELSE IF t[1][1] < mode
       THEN LET plower == Cdf(t[1][1], M, n1, n)
            IN IF Scaled(Weight(n, M, n1, n)) > Gamma(wexact) THEN plower
               ELSE LET guess == BinarySearch(-1, -Gamma(wexact), mode, n, M, n1, n)
                    IN plower + Sf(guess, M, n1, n)
       ELSE LET pupper == Sf(t[1][1] - 1, M, n1, n)
            IN IF Scaled(Weight(0, M, n1, n)) > Gamma(wexact) THEN pupper
               ELSE LET guess == BinarySearch(1, Gamma(wexact), 0, mode, M, n1, n)
                    IN pupper + Cdf(guess, M, n1, n)

PValue(t) ==
    LET M == t[1][1] + t[1][2] + t[2][1] + t[2][2]
        den == Choose(M, t[1][1] + t[2][1])
    IN IF M > MaxTotal THEN Unevaluated
       ELSE Finite(Min(TwoSidedWeight(t), den), den)

\* Mutant: the zero-margin test is left out.
FisherExact_NoMarginTest(t) ==
    IF \E i, j \in 1..2 : t[i][j] < 0
    THEN [raised |-> "ValueError", statistic |-> NaN, pvalue |-> NaN]
    ELSE [raised |-> "None", statistic |-> OddsRatio(t), pvalue |-> PValue(t)]

\* Mutant: a zero margin is rejected like a negative entry.
FisherExact_ZeroMarginRaises(t) ==
    IF \E i, j \in 1..2 : t[i][j] < 0
    THEN [raised |-> "ValueError", statistic |-> NaN, pvalue |-> NaN]
    ELSE IF 0 \in ColSums(t) \/ 0 \in RowSums(t)
    THEN [raised |-> "ValueError", statistic |-> NaN, pvalue |-> NaN]
    ELSE [raised |-> "None", statistic |-> OddsRatio(t), pvalue |-> PValue(t)]

\* The call's outcome: the exception it raises, or the pair it returns.
FisherExact(t) ==
    IF \E i, j \in 1..2 : t[i][j] < 0
    THEN [raised |-> "ValueError", statistic |-> NaN, pvalue |-> NaN]
    ELSE IF 0 \in ColSums(t) \/ 0 \in RowSums(t)
    THEN [raised |-> "None", statistic |-> NaN, pvalue |-> One]
    ELSE [raised |-> "None", statistic |-> OddsRatio(t), pvalue |-> PValue(t)]

\* "%.2f" % x for a finite x, in hundredths (round half to even).
Format2f(x) ==
    LET q == (x.num * 100) \div x.den
        r == (x.num * 100) % x.den
    IN IF 2 * r > x.den \/ (2 * r = x.den /\ q % 2 = 1) THEN q + 1 ELSE q

-----------------------------------------------------------------------------
(* The cells.                                                              *)

\* What one run reports.
ResultNames == {"a", "b", "c", "d", "odds_ratio", "fisher_p_value"}
Result(f) == [n \in ResultNames \cap DOMAIN f |-> f[n]]

Init ==
    /\ csv \in CsvFiles
    /\ pc = "load"
    /\ ns = <<>>
    /\ error = "None"
    /\ runs = 0
    /\ previous = <<>>

DataPath == "/home/jovyan/data-store/home/shared/NCEMS/2025-NCEMS-ML-webinar/"

\* Step 1: data1 = pd.read_csv(...)
LoadData ==
    /\ pc = "load"
    /\ ns' = Bind(Bind(ns, "data_path", DataPath), "data1", csv)
    /\ pc' = "count"
    /\ UNCHANGED <<csv, error, runs, previous>>

\* Mutant: the counts are added to what the names already hold.
CountCells_Accumulate ==
    /\ pc = "count"
    /\ LET Old(name) == IF name \in DOMAIN ns THEN ns[name] ELSE 0
           a == Old("a") + CountWhere(ns.data1, "True", "True")
           b == Old("b") + CountWhere(ns.data1, "True", "False")
           c == Old("c") + CountWhere(ns.data1, "False", "True")
           d == Old("d") + CountWhere(ns.data1, "False", "False")
       IN ns' = Bind(Bind(Bind(Bind(Bind(ns, "a", a), "b", b), "c", c), "d", d),
                     "contingency_table", <<<<a, b>>, <<c, d>>>>)
    /\ pc' = "fisher"
    /\ UNCHANGED <<csv, error, runs, previous>>

\* Step 3, first cell: the four counts and the DataFrame built from them,
\* rows "Protein Entangled" [a, b] and "Protein Not Entangled" [c, d].
CountCells ==
    /\ pc = "count"
    /\ LET a == CountWhere(ns.data1, "True", "True")
           b == CountWhere(ns.data1, "True", "False")
           c == CountWhere(ns.data1, "False", "True")
           d == CountWhere(ns.data1, "False", "False")
       IN ns' = Bind(Bind(Bind(Bind(Bind(ns, "a", a), "b", b), "c", c), "d", d),
                     "contingency_table", <<<<a, b>>, <<c, d>>>>)
    /\ pc' = "fisher"
    /\ UNCHANGED <<csv, error, runs, previous>>

\* Step 3, second cell: odds_ratio, fisher_p_value = fisher_exact(...)
FisherCell ==
    /\ pc = "fisher"
    /\ LET r == FisherExact(ns.contingency_table)
       IN IF r.raised = "None"
          THEN /\ ns' = Bind(Bind(ns, "odds_ratio", r.statistic),
                             "fisher_p_value", r.pvalue)
               /\ error' = "None"
          ELSE /\ ns' = ns
               /\ error' = r.raised
    /\ pc' = "done"
    /\ UNCHANGED <<csv, runs, previous>>

\* The notebook is run again from Step 1 on the same kernel and file.
RunAgain ==
    /\ pc = "done"
    /\ runs < MaxReruns
    /\ previous' = Result(ns)
    /\ runs' = runs + 1
    /\ pc' = "load"
    /\ UNCHANGED <<csv, ns, error>>

Next == LoadData \/ CountCells \/ FisherCell \/ RunAgain

Spec == Init /\ [][Next]_vars

-----------------------------------------------------------------------------
(* What the claims speak of.                                               *)

Done == pc = "done"
Table == ns.contingency_table
Cells == <<ns.a, ns.b, ns.c, ns.d>>

IsComplete(row) ==
    row.NativeEnt \in {"True", "False"} /\ row.NonRefoldable \in {"True", "False"}

CompleteRecords == {i \in 1..Len(csv) : IsComplete(csv[i])}
IncompleteRecords == {i \in 1..Len(csv) : ~IsComplete(csv[i])}

\* Every row and column total of the table is positive.
ValidTable(t) ==
    /\ t[1][1] + t[1][2] > 0
    /\ t[2][1] + t[2][2] > 0
    /\ t[1][1] + t[2][1] > 0
    /\ t[1][2] + t[2][2] > 0

\* The tables with the row and column totals of t, by their top-left cell.
SameMargins(t) ==
    LET n1 == t[1][1] + t[1][2]
        n2 == t[2][1] + t[2][2]
        n  == t[1][1] + t[2][1]
    IN {<<<<x, n1 - x>>, <<n - x, n2 - n + x>>>> :
          x \in {y \in 0..n : y <= n1 /\ n - y <= n2}}

\* The hypergeometric probability of table u, times Choose(total, column total).
TableWeight(u) ==
    Choose(u[1][1] + u[1][2], u[1][1]) * Choose(u[2][1] + u[2][2], u[2][1])

RECURSIVE SumOver(_)
SumOver(S) ==
    IF S = {} THEN 0
    ELSE LET u == CHOOSE v \in S : TRUE IN TableWeight(u) + SumOver(S \ {u})

\* The two-sided p-value as the exact test defines it.
AtMostAsLikely(t) == {u \in SameMargins(t) : TableWeight(u) <= TableWeight(t)}

\* C7: for every valid table the two-sided p-value is the sum of the
\* hypergeometric probabilities of the tables with the same margins that are
\* no more probable than the observed one, and it lies in [0, 1].
C7_PValueIsTailSumInUnitInterval ==
    (Done /\ ValidTable(Table) /\ ns.fisher_p_value.kind # "unevaluated") =>
        LET p == ns.fisher_p_value
            M == Table[1][1] + Table[1][2] + Table[2][1] + Table[2][2]
        IN /\ p.kind = "finite"
           /\ p = Finite(SumOver(AtMostAsLikely(Table)), SumOver(SameMargins(Table)))
           /\ SumOver(SameMargins(Table)) = Choose(M, Table[1][1] + Table[2][1])
           /\ 0 <= p.num /\ p.num <= p.den /\ p.den > 0

\* A table whose p-value takes the binary search for the opposite tail.
C7_SearchedTail ==
    /\ Done
    /\ ValidTable(Table)
    /\ ns.fisher_p_value.kind = "finite"
    /\ ns.fisher_p_value # One
    /\ \E u, v \in AtMostAsLikely(Table) :
          u[1][1] < Table[1][1] /\ Table[1][1] < v[1][1]
    /\ AtMostAsLikely(Table) # SameMargins(Table)

-----------------------------------------------------------------------------
\* The four cells as the data model defines them, counted over the file.
Feature(i) == csv[i].NativeEnt = "True"
Outcome(i) == csv[i].NonRefoldable = "True"
InA == {i \in CompleteRecords : Feature(i) /\ Outcome(i)}
InB == {i \in CompleteRecords : Feature(i) /\ ~Outcome(i)}
InC == {i \in CompleteRecords : ~Feature(i) /\ Outcome(i)}
InD == {i \in CompleteRecords : ~Feature(i) /\ ~Outcome(i)}

Counted == pc \in {"fisher", "done"}

\* C1: each complete record lies in exactly one of the four cells, so
\* a+b+c+d is the number of complete records, and every count is a
\* non-negative integer.
C1_CellsPartitionCompleteRecords ==
    Counted =>
        /\ ns.a = Cardinality(InA) /\ ns.b = Cardinality(InB)
        /\ ns.c = Cardinality(InC) /\ ns.d = Cardinality(InD)
        /\ ns.a + ns.b + ns.c + ns.d = Cardinality(CompleteRecords)
        /\ \A x \in {ns.a, ns.b, ns.c, ns.d} : x \in Nat
        /\ ns.contingency_table = <<<<ns.a, ns.b>>, <<ns.c, ns.d>>>>

C1_MixedFileCounted ==
    /\ Counted
    /\ IncompleteRecords # {}
    /\ ns.a > 0 /\ ns.d > 0
    /\ ns.a + ns.b + ns.c + ns.d < Len(csv)

\* C2: when b > 0 and c > 0 the odds ratio is exactly (a*d)/(b*c), with a, b,
\* c, d the counts of feature-and-outcome, feature-only, outcome-only and
\* neither; it is 0 when a = 0 or d = 0, and for {30, 18, 16, 65} it is
\* 1950/288, printed as 6.77.
C2_OddsRatioIsCrossProductRatio ==
    (Done /\ Cardinality(InB) > 0 /\ Cardinality(InC) > 0) =>
        LET r == ns.odds_ratio
            A == Cardinality(InA)
            B == Cardinality(InB)
            C == Cardinality(InC)
            D == Cardinality(InD)
        IN /\ r.kind = "finite"
           /\ r.den > 0
           /\ r.num * (B * C) = r.den * (A * D)
           /\ (A = 0 \/ D = 0) => r.num = 0
           /\ (<<A, B, C, D>> = <<30, 18, 16, 65>>) =>
                 /\ r.num * 288 = r.den * 1950
                 /\ Format2f(r) = 677

C2_ScenarioTableReached ==
    /\ Done
    /\ Cells = <<30, 18, 16, 65>>
    /\ ns.odds_ratio.kind = "finite"
    /\ Format2f(ns.odds_ratio) = 677

\* C3: when b = 0 or c = 0 while a > 0 and d > 0, the call returns the
\* infinite value: nothing is raised, and the result is neither NaN nor finite.
C3_ZeroDenominatorGivesInf ==
    (Done /\ (ns.b = 0 \/ ns.c = 0) /\ ns.a > 0 /\ ns.d > 0) =>
        /\ error = "None"
        /\ "odds_ratio" \in DOMAIN ns
        /\ ns.odds_ratio = Inf
        /\ ns.odds_ratio.kind \notin {"nan", "finite"}

C3_DegenerateScenarioReached ==
    /\ Done
    /\ Cells = <<10, 0, 5, 10>>
    /\ ns.odds_ratio = Inf

\* Numerator a*d and denominator b*c both zero.
ZeroOverZero == ns.a * ns.d = 0 /\ ns.b * ns.c = 0

\* C4 as stated: the computation fails with UndefinedStatisticError exactly
\* when numerator and denominator are both zero, which is exactly when some
\* margin is zero; the cells are then still exposed.
C4_RaisesUndefinedStatisticError ==
    Done =>
        /\ ZeroOverZero <=> ~ValidTable(Table)
        /\ ZeroOverZero <=> error = "UndefinedStatisticError"
        /\ ZeroOverZero => Cells = <<Cardinality(InA), Cardinality(InB),
                                     Cardinality(InC), Cardinality(InD)>>

\* C4 amended: numerator and denominator are both zero exactly when some
\* margin is zero, and exactly then the call returns NaN as the odds ratio
\* (with p-value 1) without raising; the cells are still exposed.
C4_ZeroMarginGivesNaN ==
    Done =>
        /\ error = "None"
        /\ ZeroOverZero <=> ~ValidTable(Table)
        /\ ZeroOverZero <=> ns.odds_ratio = NaN
        /\ ZeroOverZero =>
              /\ ns.fisher_p_value = One
              /\ Cells = <<Cardinality(InA), Cardinality(InB),
                           Cardinality(InC), Cardinality(InD)>>

C4_NoFeatureRowReached ==
    /\ Done
    /\ ns.a = 0 /\ ns.b = 0
    /\ ns.c > 0 /\ ns.d > 0
    /\ ns.odds_ratio = NaN

\* C5 as stated: with no complete record the table builder fails with
\* InvalidInputError, and no odds ratio or p-value is produced.
C5_RaisesInvalidInputError ==
    (Counted /\ CompleteRecords = {}) =>
        /\ error = "InvalidInputError"
        /\ "odds_ratio" \notin DOMAIN ns
        /\ "fisher_p_value" \notin DOMAIN ns

\* C5 amended: with no complete record nothing fails; the table is all
\* zeros and the call returns NaN as the odds ratio and 1 as the p-value.
C5_EmptySetGivesZeroTable ==
    (Counted /\ CompleteRecords = {}) =>
        /\ error = "None"
        /\ Cells = <<0, 0, 0, 0>>
        /\ Done => (ns.odds_ratio = NaN /\ ns.fisher_p_value = One)

C5_OnlyIncompleteRecordsReached ==
    /\ Done
    /\ CompleteRecords = {}
    /\ Len(csv) > 0
    /\ ns.fisher_p_value = One

\* How many records other than record i are exactly the row r.
RowsEqual(r, i) == Cardinality({j \in 1..Len(csv) : j # i /\ csv[j] = r})

\* C6 as stated: every record with a missing value is in none of the cells
\* and is counted once in dropped_record_count, so that the cells and
\* dropped_record_count add up to the number of input records.
C6_DroppedRecordCountReported ==
    Done =>
        /\ error = "None"
        /\ "dropped_record_count" \in DOMAIN ns
        /\ ns.dropped_record_count = Cardinality(IncompleteRecords)
        /\ ns.a + ns.b + ns.c + ns.d + ns.dropped_record_count = Len(csv)

\* C6 amended: every record with a missing value is in none of the cells
\* (it is never taken for False), so that the cells and the number of such
\* records add up to the number of input records; a missing value raises
\* nothing; the run binds no dropped_record_count.
C6_MissingValuesInNoCell ==
    Counted =>
        /\ error = "None"
        /\ ns.a + ns.b + ns.c + ns.d + Cardinality(IncompleteRecords) = Len(csv)
        /\ \A i \in IncompleteRecords :
              /\ ns.a = RowsEqual(MkRow("True", "True"), i)
              /\ ns.b = RowsEqual(MkRow("True", "False"), i)
              /\ ns.c = RowsEqual(MkRow("False", "True"), i)
              /\ ns.d = RowsEqual(MkRow("False", "False"), i)
        /\ "dropped_record_count" \notin DOMAIN ns

C6_HalfMissingRecordReached ==
    /\ Done
    /\ \E i \in IncompleteRecords :
          csv[i].NativeEnt = "True" /\ csv[i].NonRefoldable = "NaN"
    /\ \E i \in IncompleteRecords :
          csv[i].NativeEnt = "NaN" /\ csv[i].NonRefoldable = "False"
    /\ ns.a + ns.b + ns.c + ns.d = 1

\* Both rows and both columns exchanged: {a, b, c, d} becomes {d, c, b, a}.
Swap(t) == <<<<t[2][2], t[2][1]>>, <<t[1][2], t[1][1]>>>>

\* C8: exchanging both rows and both columns of a valid table leaves the
\* two-sided p-value unchanged.
C8_PValueSymmetricUnderDoubleSwap ==
    (Done /\ ValidTable(Table) /\ ns.fisher_p_value.kind # "unevaluated") =>
        /\ FisherExact(Swap(Table)).raised = "None"
        /\ FisherExact(Swap(Table)).pvalue = ns.fisher_p_value

C8_SkewedTableReached ==
    /\ Done
    /\ ValidTable(Table)
    /\ Swap(Table) # Table
    /\ ns.a + ns.b # ns.c + ns.d
    /\ ns.a + ns.c # ns.b + ns.d
    /\ ns.fisher_p_value.kind = "finite"
    /\ ns.fisher_p_value # One

\* C9: a second run on the same file reports what the first run reported.
C9_SecondRunRepeatsFirst ==
    (Done /\ runs > 0) => Result(ns) = previous

C9_SecondRunFinished ==
    /\ Done
    /\ runs > 0
    /\ ValidTable(Table)
    /\ IncompleteRecords # {}
    /\ DOMAIN previous = ResultNames
====
